---- MODULE Spec2Model ----
(***************************************************************************)
(* CubeSatDB (garbados/cubesat-db): a PouchDB document store kept in step  *)
(* with an ipfs-log operation log.  The model follows the class of         *)
(* src/unnamed/part_001 (the revision the tests in src/test.js exercise).  *)
(* Every asynchronous method is cut at its promise boundaries: one action  *)
(* per step that runs between two awaits.                                  *)
(*                                                                         *)
(* The two collaborators are modelled by what the calls made in the class  *)
(* do:                                                                     *)
(*  - PouchDB keeps, per document id, a revision tree.  put/post/remove    *)
(*    (new_edits) add a child under the revision the caller names and      *)
(*    fail with a conflict otherwise; bulkDocs with new_edits:false and a  *)
(*    payload that carries only _rev (no _revisions) grafts that revision  *)
(*    as a root of its own.  The winning revision is the best leaf:        *)
(*    not deleted before deleted, then higher generation, then higher id.  *)
(*  - ipfs-log keeps a set of entries identified by content, each with a   *)
(*    Lamport clock; values lists them by (clock time, clock id).          *)
(***************************************************************************)
EXTENDS Integers, Sequences, FiniteSets, TLC

\* ---- bounds of the model ----
MaxDocs == 2          \* document ids 1..MaxDocs
MaxContent == 2       \* document bodies 1..MaxContent
MaxOps == 4           \* calls started in one behaviour
MaxBatchOps == 2      \* calls started before a put(array) starts
MaxBothOps == 3       \* calls started in a behaviour with a put and a join in flight together

Stores == {"A", "B", "T"}
Writers == {"A", "B"}
DocIds == 1..MaxDocs
Contents == 1..MaxContent

VARIABLES
    pouch,      \* pouch[s][id]: the revision tree of document id in s's PouchDB
    log,        \* log[s]: the entries of s's IpfsLog
    clock,      \* clock[s]: the Lamport time of s's IpfsLog
    hashOf,     \* hashOf[s]: this._hash
    pc,         \* pc[s]: the call in flight on s and where it stands
    last,       \* last[s]: the outcome of the last call that returned on s
    nextRev,    \* the next fresh revision id PouchDB hands out
    ops         \* calls started so far

vars == <<pouch, log, clock, hashOf, pc, last, nextRev, ops>>

\* ---- values ----
NoRev == [pos |-> 0, hash |-> 0]
\* A log payload: the document as appended.  op is the tag of the {op, doc}
\* envelope, "-" when the bare document is appended.
NoPayload ==
    [op |-> "-", id |-> 0, pos |-> 0, hash |-> 0, deleted |-> FALSE, content |-> 0]

Payload(op, id, rev, deleted, content) ==
    [op |-> op, id |-> id, pos |-> rev.pos, hash |-> rev.hash, deleted |-> deleted,
     content |-> content]
NoHash == [set |-> FALSE, entries |-> {}, liveAt |-> {}]

Max(a, b) == IF a >= b THEN a ELSE b

\* ---- PouchDB: revision trees ----
RevOf(n) == [pos |-> n.pos, hash |-> n.hash]

Children(T, n) == {m \in T : m.parent = n.hash /\ m.pos = n.pos + 1}

Leaves(T) == {n \in T : Children(T, n) = {}}

\* winningRev: sort by deleted, then pos, then id
Beats(a, b) ==
    IF a.deleted # b.deleted THEN ~a.deleted
    ELSE IF a.pos # b.pos THEN a.pos > b.pos
    ELSE a.hash > b.hash

WinningRev(T) == CHOOSE n \in Leaves(T) : \A m \in Leaves(T) : m = n \/ Beats(n, m)

IsLive(T) == T # {} /\ ~WinningRev(T).deleted

\* pouch.get(id): the winning revision, or NotFound
PouchGet(T, id) ==
    IF IsLive(T)
    THEN [found |-> TRUE, id |-> id, pos |-> WinningRev(T).pos,
          hash |-> WinningRev(T).hash, content |-> WinningRev(T).content]
    ELSE [found |-> FALSE, id |-> id, pos |-> 0, hash |-> 0, content |-> 0]

\* pouch.allDocs({include_docs: true}): the live documents
PouchAllDocs(P) ==
    {[id |-> id, pos |-> WinningRev(P[id]).pos, hash |-> WinningRev(P[id]).hash,
      content |-> WinningRev(P[id]).content] : id \in {i \in DocIds : IsLive(P[i])}}

NodesAt(T, rev) == {n \in T : n.pos = rev.pos /\ n.hash = rev.hash}

Failed(T) == [ok |-> FALSE, tree |-> T, rev |-> NoRev]

Grafted(T, pos, h, parent, deleted, content) ==
    [ok |-> TRUE,
     tree |-> T \cup {[pos |-> pos, hash |-> h, deleted |-> deleted,
                       parent |-> parent, content |-> content]},
     rev |-> [pos |-> pos, hash |-> h]]

\* A write with new_edits (put, post, remove): rev is the _rev the caller
\* passed (NoRev when absent), h the fresh revision id.
PouchWrite(T, rev, deleted, content, h) ==
    IF T = {}
    THEN IF deleted \/ rev # NoRev
         THEN Failed(T)                      \* missing (remove) or conflict
         ELSE Grafted(T, 1, h, 0, FALSE, content)
    ELSE LET w == WinningRev(T) IN
         IF rev = NoRev
         THEN IF w.deleted /\ ~deleted
              THEN Grafted(T, w.pos + 1, h, w.hash, deleted, content)
              ELSE Failed(T)                 \* conflict: document exists
         ELSE IF NodesAt(T, rev) = {}
         THEN IF w.deleted /\ ~deleted
              THEN Grafted(T, rev.pos + 1, h, rev.hash, deleted, content)
              ELSE Failed(T)
         ELSE IF \A n \in NodesAt(T, rev) : Children(T, n) = {}
         THEN Grafted(T, rev.pos + 1, h, rev.hash, deleted, content)
         ELSE Failed(T)                      \* conflict: rev is not a leaf

\* bulkDocs as a plain overwrite: the document as given replaces what is stored
PouchBulkDocsOverwrite(T, p) ==
    {[pos |-> p.pos, hash |-> p.hash, deleted |-> p.deleted,
      parent |-> 0, content |-> p.content]}

\* bulkDocs that leaves a document alone once the store has one of that id
PouchBulkDocsSkipExisting(T, p) ==
    IF T # {} THEN T ELSE PouchBulkDocsOverwrite(T, p)

\* bulkDocs that writes a revision it already holds once more, as a root
PouchBulkDocsRewrite(T, p) ==
    (T \ NodesAt(T, [pos |-> p.pos, hash |-> p.hash])) \cup PouchBulkDocsOverwrite(T, p)

\* bulkDocs({docs: [payload], new_edits: false}): the payload's _rev becomes
\* a root of its own unless the tree already holds that revision.
PouchBulkDocs(T, p) ==
    IF NodesAt(T, [pos |-> p.pos, hash |-> p.hash]) # {}
    THEN T
    ELSE T \cup {[pos |-> p.pos, hash |-> p.hash, deleted |-> p.deleted,
                  parent |-> 0, content |-> p.content]}

\* ---- IpfsLog ----
\* The order of the clock ids: the names of the logs, compared as strings
IdBefore(s, t) == <<s, t>> \in {<<"A", "B">>, <<"A", "T">>, <<"B", "T">>}

\* Entry.compare: by clock time, then by clock id
EntryBefore(a, b) ==
    \/ a.time < b.time
    \/ a.time = b.time /\ IdBefore(a.origin, b.origin)

RECURSIVE LogValues(_)
\* log.values: the entries, oldest first
LogValues(E) ==
    IF E = {} THEN <<>>
    ELSE LET e == CHOOSE x \in E : \A y \in E : y = x \/ EntryBefore(x, y)
         IN <<e>> \o LogValues(E \ {e})

\* the number of entries a log holds
LogLength(E) == Cardinality(E)

MaxTime(E) == IF E = {} THEN 0 ELSE CHOOSE t \in {e.time : e \in E} : \A e \in E : e.time <= t

\* log.append(payload) on store s
LogAppend(s, p) ==
    /\ log' = [log EXCEPT ![s] = @ \cup {[origin |-> s, time |-> clock[s] + 1, payload |-> p]}]
    /\ clock' = [clock EXCEPT ![s] = @ + 1]

\* a join that takes the other log in place of its own
LogJoinReplace(s, E) ==
    /\ log' = [log EXCEPT ![s] = E]
    /\ clock' = [clock EXCEPT ![s] = IF MaxTime(E) >= @ THEN MaxTime(E) ELSE @]

\* this.log.join(other): the union by entry identity; the clock moves up
LogJoin(s, E) ==
    /\ log' = [log EXCEPT ![s] = @ \cup E]
    /\ clock' = [clock EXCEPT ![s] = Max(@, MaxTime(E))]

\* ---- calls ----
Idle ==
    [op |-> "idle", stage |-> "-", payload |-> NoPayload, src |-> "-",
     L |-> {}, pending |-> {}, log0 |-> {}, p0 |-> <<>>]

IsIdle(s) == pc[s].op = "idle"

NoCall ==
    [op |-> "none", src |-> "-", L |-> {}, live0 |-> {}, prev |-> "none", prevL |-> {}]

\* What last[s] keeps of a call that returned normally
Returned(s, op, src, L, live0) ==
    [op |-> op, src |-> src, L |-> L, live0 |-> live0,
     prev |-> last[s].op, prevL |-> last[s].L]

\* Calls are made one after the other: a call starts when none is in flight
CanStart(s) == ops < MaxOps /\ \A t \in Stores : IsIdle(t)

\* A call that throws or rejects before it wrote anything
Rejected == UNCHANGED <<pouch, log, clock, hashOf, pc, last, nextRev>>

\* validate(doc): the document is an object and not an array
validate(valid) == valid

Pending(s, op, p) ==
    [Idle EXCEPT !.op = op, !.stage = "append", !.payload = p,
                 !.log0 = log[s], !.p0 = pouch[s]]

\* put and del that append the document with the _rev the caller passed
StoredCallerRev(s, op, id, r, deleted, content) ==
    /\ pouch' = [pouch EXCEPT ![s][id] = r.tree]
    /\ nextRev' = nextRev + 1
    /\ pc' = [pc EXCEPT ![s] =
         Pending(s, op,
                 Payload("-", id,
                         LET n == CHOOSE m \in r.tree : RevOf(m) = r.rev
                         IN  IF n.parent = 0 THEN NoRev
                             ELSE [pos |-> n.pos - 1, hash |-> n.parent],
                         deleted, content))]
    /\ UNCHANGED <<log, clock, hashOf, last>>

\* What put, post and del do once the store has written: stamp the document
\* with result.rev and go on to this.log.append
Stored(s, op, id, r, deleted, content) ==
    /\ pouch' = [pouch EXCEPT ![s][id] = r.tree]
    /\ nextRev' = nextRev + 1
    /\ pc' = [pc EXCEPT ![s] =
         Pending(s, op, Payload("-", id, r.rev, deleted, content))]
    /\ UNCHANGED <<log, clock, hashOf, last>>

\* put(doc), first step: validate, then pouch.put(doc); id = 0 is a
\* document without _id
PutStore(s, valid, id, rev, content) ==
    /\ CanStart(s)
    /\ ops' = ops + 1
    /\ LET r == IF id = 0 THEN Failed({})
                ELSE PouchWrite(pouch[s][id], rev, FALSE, content, nextRev) IN
       IF validate(valid) /\ r.ok
       THEN Stored(s, "put", id, r, FALSE, content)
       ELSE Rejected

\* The _id pouch.post makes up: one no store has seen
FreshId(id) ==
    /\ \A t \in Stores : pouch[t][id] = {}
    /\ \A j \in DocIds : j < id => \E t \in Stores : pouch[t][j] # {}

\* post(doc), first step: validate, then pouch.post(doc) creates the id
PostStore(s, valid, id, content) ==
    /\ CanStart(s)
    /\ ops' = ops + 1
    /\ IF valid THEN FreshId(id) ELSE id = 0
    /\ IF validate(valid)
       THEN Stored(s, "post", id,
                   PouchWrite(pouch[s][id], NoRev, FALSE, content, nextRev),
                   FALSE, content)
       ELSE Rejected

\* del({_id, _rev}), first step: the two asserts, then pouch.remove(_id, _rev)
DelStore(s, id, rev) ==
    /\ CanStart(s)
    /\ ops' = ops + 1
    /\ LET r == IF id = 0 \/ rev = NoRev THEN Failed({})
                ELSE PouchWrite(pouch[s][id], rev, TRUE, 0, nextRev) IN
       IF r.ok
       THEN Stored(s, "del", id, r, TRUE, 0)
       ELSE Rejected

\* an append that drops the cached multihash
AppendLogInvalidating(s) ==
    /\ pc[s].op \in {"put", "post", "del"}
    /\ pc[s].stage = "append"
    /\ LogAppend(s, pc[s].payload)
    /\ pc' = [pc EXCEPT ![s] = Idle]
    /\ hashOf' = [hashOf EXCEPT ![s] = NoHash]
    /\ last' = [last EXCEPT ![s] = Returned(s, pc[s].op, "-", {}, PouchAllDocs(pc[s].p0))]
    /\ UNCHANGED <<pouch, nextRev, ops>>

\* put/post/del, second step: this.log.append(doc)
AppendLog(s) ==
    /\ pc[s].op \in {"put", "post", "del"}
    /\ pc[s].stage = "append"
    /\ LogAppend(s, pc[s].payload)
    /\ pc' = [pc EXCEPT ![s] = Idle]
    /\ last' = [last EXCEPT ![s] = Returned(s, pc[s].op, "-", {}, PouchAllDocs(pc[s].p0))]
    /\ UNCHANGED <<pouch, hashOf, nextRev, ops>>

\* a join that merges both ways: the log passed in receives the entries of
\* this log
JoinMergeBoth(s, t) ==
    /\ CanStart(s)
    /\ t # s
    /\ ops' = ops + 1
    /\ log' = [log EXCEPT ![s] = @ \cup log[t], ![t] = @ \cup log[s]]
    /\ clock' = [clock EXCEPT ![s] = Max(@, MaxTime(log[t]))]
    /\ pc' = [pc EXCEPT ![s] =
         [Idle EXCEPT !.op = "join", !.stage = "merged", !.src = t,
                      !.log0 = log[s], !.p0 = pouch[s]]]
    /\ UNCHANGED <<pouch, hashOf, last, nextRev>>

\* join(log), first step: log = log.log when a store is passed, then
\* this.log.join(log)
JoinMerge(s, t) ==
    /\ CanStart(s)
    /\ t # s
    /\ ops' = ops + 1
    /\ LogJoin(s, log[t])
    /\ pc' = [pc EXCEPT ![s] =
         [Idle EXCEPT !.op = "join", !.stage = "merged", !.src = t,
            !.log0 = log[s], !.p0 = pouch[s]]]
    /\ UNCHANGED <<pouch, hashOf, last, nextRev>>

\* The log the replay reads: the store's live log, or the log load resolved
ForeignLog(s) == IF pc[s].src = "snap" THEN pc[s].L ELSE log[pc[s].src]

JoinReturned(s, L) == Returned(s, pc[s].op, pc[s].src, L, PouchAllDocs(pc[s].p0))

\* a join that merges the log and returns without replaying it
JoinReplaySkip(s) ==
    /\ pc[s].op \in {"join", "load"}
    /\ pc[s].stage = "merged"
    /\ pc' = [pc EXCEPT ![s] = Idle]
    /\ last' = [last EXCEPT ![s] = JoinReturned(s, ForeignLog(s))]
    /\ UNCHANGED <<pouch, log, clock, hashOf, nextRev, ops>>

\* join, the callback of this.log.join: log.values.map starts one bulkDocs
\* per entry of the foreign log; Promise.all of none resolves at once
JoinReplay(s) ==
    /\ pc[s].op \in {"join", "load"}
    /\ pc[s].stage = "merged"
    /\ LET L == ForeignLog(s) IN
       IF L = {}
       THEN /\ pc' = [pc EXCEPT ![s] = Idle]
            /\ last' = [last EXCEPT ![s] = JoinReturned(s, L)]
       ELSE /\ pc' = [pc EXCEPT ![s].stage = "replay", ![s].L = L, ![s].pending = L]
            /\ UNCHANGED last
    /\ UNCHANGED <<pouch, log, clock, hashOf, nextRev, ops>>

\* join, one bulkDocs({docs: [entry.payload], new_edits: false}) completes;
\* the writes were started together and finish in any order.  When the last
\* one is done Promise.all resolves and join returns.
JoinApply(s, e) ==
    /\ pc[s].op \in {"join", "load"}
    /\ pc[s].stage = "replay"
    /\ e \in pc[s].pending
    /\ pouch' = [pouch EXCEPT ![s][e.payload.id] = PouchBulkDocs(@, e.payload)]
    /\ IF pc[s].pending = {e}
       THEN /\ pc' = [pc EXCEPT ![s] = Idle]
            /\ last' = [last EXCEPT ![s] = JoinReturned(s, pc[s].L)]
       ELSE /\ pc' = [pc EXCEPT ![s].pending = @ \ {e}]
            /\ UNCHANGED last
    /\ UNCHANGED <<log, clock, hashOf, nextRev, ops>>

\* a toMultihash that returns the multihash without keeping it in this._hash
ToMultihashNoCache(s) ==
    /\ CanStart(s)
    /\ ops' = ops + 1
    /\ last' = [last EXCEPT ![s] =
         Returned(s, "toMultihash", "-", {}, PouchAllDocs(pouch[s]))]
    /\ UNCHANGED <<pouch, log, clock, hashOf, pc, nextRev>>

\* toMultihash(): this._hash = the multihash of the log as it stands.
\* liveAt remembers the live documents of the store at that moment.
ToMultihash(s) ==
    /\ CanStart(s)
    /\ ops' = ops + 1
    /\ hashOf' = [hashOf EXCEPT ![s] =
         [set |-> TRUE, entries |-> log[s], liveAt |-> PouchAllDocs(pouch[s])]]
    /\ last' = [last EXCEPT ![s] =
         Returned(s, "toMultihash", "-", {}, PouchAllDocs(pouch[s]))]
    /\ UNCHANGED <<pouch, log, clock, pc, nextRev>>

Pristine(t) ==
    /\ IsIdle(t) /\ last[t].op = "none" /\ log[t] = {} /\ ~hashOf[t].set
    /\ \A id \in DocIds : pouch[t][id] = {}

\* new CubeSatDB({hash, name}) with the hash store s published
Construct(t, s) ==
    /\ \A u \in Stores : IsIdle(u)
    /\ t = "T" /\ s # t
    /\ Pristine(t)
    /\ hashOf[s].set
    /\ hashOf' = [hashOf EXCEPT ![t] = hashOf[s]]
    /\ last' = [last EXCEPT ![t] = Returned(t, "new", s, {}, {})]
    /\ UNCHANGED <<pouch, log, clock, pc, nextRev, ops>>

\* a load that does not read this.hash first and resolves an empty log
\* when the store has no hash
LoadUnchecked(s) ==
    /\ CanStart(s)
    /\ ops' = ops + 1
    /\ LogJoin(s, hashOf[s].entries)
    /\ pc' = [pc EXCEPT ![s] =
         [Idle EXCEPT !.op = "load", !.stage = "merged", !.src = "snap",
                      !.L = hashOf[s].entries, !.log0 = log[s], !.p0 = pouch[s]]]
    /\ UNCHANGED <<pouch, hashOf, last, nextRev>>

\* load(): the hash getter throws without a hash; otherwise
\* IpfsLog.fromMultihash resolves the log and join(log) merges it
Load(s) ==
    /\ CanStart(s)
    /\ ops' = ops + 1
    /\ IF hashOf[s].set
       THEN /\ LogJoin(s, hashOf[s].entries)
            /\ pc' = [pc EXCEPT ![s] =
                 [Idle EXCEPT !.op = "load", !.stage = "merged", !.src = "snap",
                    !.L = hashOf[s].entries,
                    !.log0 = log[s], !.p0 = pouch[s]]]
            /\ UNCHANGED <<pouch, hashOf, last, nextRev>>
       ELSE Rejected

\* ---- the system ----
Init ==
    /\ pouch = [s \in Stores |-> [id \in DocIds |-> {}]]
    /\ log = [s \in Stores |-> {}]
    /\ clock = [s \in Stores |-> 0]
    /\ hashOf = [s \in Stores |-> NoHash]
    /\ pc = [s \in Stores |-> Idle]
    /\ last = [s \in Stores |-> NoCall]
    /\ nextRev = 1
    /\ ops = 0

\* The _rev values a caller can hold for document id of store s
KnownRevs(s, id) == {NoRev} \cup {RevOf(n) : n \in pouch[s][id]}

Next ==
    \/ \E s \in Writers, id \in DocIds, content \in Contents :
         \E rev \in KnownRevs(s, id) : PutStore(s, TRUE, id, rev, content)
    \/ \E s \in Writers : PutStore(s, FALSE, 0, NoRev, 0)
    \/ \E s \in Writers : PutStore(s, TRUE, 0, NoRev, 1)
    \/ \E s \in Writers, id \in DocIds, content \in Contents :
         PostStore(s, TRUE, id, content)
    \/ \E s \in Writers : PostStore(s, FALSE, 0, 0)
    \/ \E s \in Writers, id \in DocIds :
         \E rev \in KnownRevs(s, id) : DelStore(s, id, rev)
    \/ \E s \in Writers : DelStore(s, 0, NoRev)
    \/ \E s \in Stores : AppendLog(s)
    \/ \E s, t \in Stores : JoinMerge(s, t)
    \/ \E s \in Stores : JoinReplay(s)
    \/ \E s \in Stores : \E e \in pc[s].pending : JoinApply(s, e)
    \/ \E s \in Stores : ToMultihash(s)
    \/ \E s, t \in Stores : Construct(t, s)
    \/ \E s \in Stores : Load(s)

Spec == Init /\ [][Next]_vars

\* ---- the class of src/unnamed/part_000: put and del append first ----
\* put(doc): validate, then this.log.append({op: 'ADD', doc}); the document
\* is logged as the caller passed it
PutLogFirst(s, valid, id, rev, content) ==
    /\ CanStart(s)
    /\ ops' = ops + 1
    /\ IF validate(valid)
       THEN /\ LogAppend(s, Payload("ADD", id, rev, FALSE, content))
            /\ pc' = [pc EXCEPT ![s] =
                 [Idle EXCEPT !.op = "put", !.stage = "store",
                    !.payload = Payload("ADD", id, rev, FALSE, content),
                    !.log0 = log[s], !.p0 = pouch[s]]]
            /\ UNCHANGED <<pouch, hashOf, last, nextRev>>
       ELSE Rejected

\* del({_id, _rev}): the two asserts, then this.log.append({op: 'DEL', doc})
DelLogFirst(s, id, rev) ==
    /\ CanStart(s)
    /\ ops' = ops + 1
    /\ IF id # 0 /\ rev # NoRev
       THEN /\ LogAppend(s, Payload("DEL", id, rev, FALSE, 0))
            /\ pc' = [pc EXCEPT ![s] =
                 [Idle EXCEPT !.op = "del", !.stage = "store",
                    !.payload = Payload("DEL", id, rev, FALSE, 0),
                    !.log0 = log[s], !.p0 = pouch[s]]]
            /\ UNCHANGED <<pouch, hashOf, last, nextRev>>
       ELSE Rejected

\* put and del, second step: this.pouch.put(doc), this.pouch.remove(_id, _rev);
\* a rejection leaves the appended entry in the log
StoreAfterLog(s) ==
    /\ pc[s].op \in {"put", "del"}
    /\ pc[s].stage = "store"
    /\ LET p == pc[s].payload
           r == IF p.id = 0 THEN Failed({})
                ELSE PouchWrite(pouch[s][p.id], [pos |-> p.pos, hash |-> p.hash],
                                p.op = "DEL", p.content, nextRev) IN
       IF r.ok
       THEN /\ pouch' = [pouch EXCEPT ![s][p.id] = r.tree]
            /\ nextRev' = nextRev + 1
            /\ last' = [last EXCEPT ![s] =
                 Returned(s, pc[s].op, "-", {}, PouchAllDocs(pc[s].p0))]
       ELSE UNCHANGED <<pouch, nextRev, last>>
    /\ pc' = [pc EXCEPT ![s] = Idle]
    /\ UNCHANGED <<log, clock, hashOf, ops>>

\* post(doc): validate, pouch.post(doc), then this.log.append({op: 'ADD', doc})
PostTagged(s, valid, id, content) ==
    /\ CanStart(s)
    /\ ops' = ops + 1
    /\ IF valid THEN FreshId(id) ELSE id = 0
    /\ IF validate(valid)
       THEN LET r == PouchWrite(pouch[s][id], NoRev, FALSE, content, nextRev) IN
            /\ pouch' = [pouch EXCEPT ![s][id] = r.tree]
            /\ nextRev' = nextRev + 1
            /\ pc' = [pc EXCEPT ![s] =
                 Pending(s, "post", Payload("ADD", id, r.rev, FALSE, content))]
            /\ UNCHANGED <<log, clock, hashOf, last>>
       ELSE Rejected

NextLogFirst ==
    \/ \E s \in Writers, id \in DocIds, content \in Contents :
         \E rev \in KnownRevs(s, id) : PutLogFirst(s, TRUE, id, rev, content)
    \/ \E s \in Writers : PutLogFirst(s, FALSE, 0, NoRev, 0)
    \/ \E s \in Writers : PutLogFirst(s, TRUE, 0, NoRev, 1)
    \/ \E s \in Writers, id \in DocIds, content \in Contents :
         PostTagged(s, TRUE, id, content)
    \/ \E s \in Writers : PostTagged(s, FALSE, 0, 0)
    \/ \E s \in Writers, id \in DocIds :
         \E rev \in KnownRevs(s, id) : DelLogFirst(s, id, rev)
    \/ \E s \in Writers : DelLogFirst(s, 0, NoRev)
    \/ \E s \in Stores : StoreAfterLog(s)
    \/ \E s \in Stores : AppendLog(s)

SpecLogFirst == Init /\ [][NextLogFirst]_vars

\* ---- put with an array of documents ----
\* One element of the array: a document, or a value validate refuses
NotADocument == [valid |-> FALSE, id |-> 0, rev |-> NoRev, content |-> 0]

Elements(s) ==
    {NotADocument} \cup
    UNION {{[valid |-> TRUE, id |-> id, rev |-> rev, content |-> content] :
               rev \in {NoRev} \cup {RevOf(n) : n \in Leaves(pouch[s][id])},
               content \in Contents} : id \in DocIds}

Batches(s) == {<<a, b>> : a \in Elements(s), b \in Elements(s)}

\* The elements before the first one validate refuses (all, when none is)
Started(batch) ==
    {k \in 1..Len(batch) : \A j \in 1..k : batch[j].valid}

\* this.put(doc) of element k has called pouch.put and waits for it
Task(batch, k) ==
    [k |-> k, stage |-> "store",
     payload |-> Payload("-", batch[k].id, batch[k].rev, FALSE, batch[k].content)]

\* pc[s] of a put(array): stage is what the caller's promise has come to
\* ("running", "resolved", "rejected", or "thrown" for the synchronous
\* throw), pending the element puts still in flight, L the elements that
\* failed
BatchCall(s, batch, stage, started, failed) ==
    [Idle EXCEPT !.op = "putAll", !.stage = stage, !.payload = batch,
                 !.pending = {Task(batch, k) : k \in started}, !.L = failed,
                 !.log0 = log[s], !.p0 = pouch[s]]

\* put(array) of src/unnamed/part_001: doc.map calls this.put on each
\* element in turn; validate throws out of the map at the first element it
\* refuses, with the puts of the elements before it under way; otherwise
\* Promise.all(tasks) is returned
PutAll(s, batch) ==
    /\ CanStart(s) /\ ops < MaxBatchOps
    /\ ops' = ops + 1
    /\ pc' = [pc EXCEPT ![s] =
         BatchCall(s, batch,
                   IF Started(batch) = 1..Len(batch) THEN "running" ELSE "thrown",
                   Started(batch), {})]
    /\ UNCHANGED <<pouch, log, clock, hashOf, last, nextRev>>

\* put(array) of src/index.js (second class): put is an async function, so
\* every this.put(doc) returns a promise (a refused element a rejected one);
\* `await doc.map(...)` awaits the array, not the promises, and null is
\* returned
PutAllSecond(s, batch) ==
    /\ CanStart(s) /\ ops < MaxBatchOps
    /\ ops' = ops + 1
    /\ pc' = [pc EXCEPT ![s] =
         BatchCall(s, batch, "resolved",
                   {k \in 1..Len(batch) : batch[k].valid},
                   {k \in 1..Len(batch) : ~batch[k].valid})]
    /\ UNCHANGED <<pouch, log, clock, hashOf, last, nextRev>>

\* this.pouch.put(doc) of one element completes; a rejection rejects
\* Promise.all while the other elements go on
BatchStore(s, el) ==
    /\ pc[s].op = "putAll"
    /\ el \in pc[s].pending /\ el.stage = "store"
    /\ LET p == el.payload
           r == PouchWrite(pouch[s][p.id], [pos |-> p.pos, hash |-> p.hash],
                           FALSE, p.content, nextRev) IN
       IF r.ok
       THEN /\ pouch' = [pouch EXCEPT ![s][p.id] = r.tree]
            /\ nextRev' = nextRev + 1
            /\ pc' = [pc EXCEPT ![s].pending = (@ \ {el}) \cup
                 {[el EXCEPT !.stage = "append",
                             !.payload = Payload("-", p.id, r.rev, FALSE, p.content)]}]
       ELSE /\ pc' = [pc EXCEPT ![s].pending = @ \ {el},
                                ![s].L = @ \cup {el.k},
                                ![s].stage = IF @ = "running" THEN "rejected" ELSE @]
            /\ UNCHANGED <<pouch, nextRev>>
    /\ UNCHANGED <<log, clock, hashOf, last, ops>>

\* this.log.append(doc) of one element completes; with the last element
\* done Promise.all resolves
BatchAppend(s, el) ==
    /\ pc[s].op = "putAll"
    /\ el \in pc[s].pending /\ el.stage = "append"
    /\ LogAppend(s, el.payload)
    /\ pc' = [pc EXCEPT ![s].pending = @ \ {el},
                        ![s].stage = IF @ = "running" /\ pc[s].pending = {el}
                                     THEN "resolved" ELSE @]
    /\ UNCHANGED <<pouch, hashOf, last, nextRev, ops>>

\* nothing of the call is left in flight: the next call can start
BatchDone(s) ==
    /\ pc[s].op = "putAll"
    /\ pc[s].pending = {}
    /\ pc' = [pc EXCEPT ![s] = Idle]
    /\ last' = [last EXCEPT ![s] =
         IF pc[s].stage = "resolved"
         THEN Returned(s, "putAll", "-", {}, PouchAllDocs(pc[s].p0))
         ELSE @]
    /\ UNCHANGED <<pouch, log, clock, hashOf, nextRev, ops>>

BatchSteps ==
    \/ \E s \in Writers : \E el \in pc[s].pending : BatchStore(s, el)
    \/ \E s \in Writers : \E el \in pc[s].pending : BatchAppend(s, el)
    \/ \E s \in Writers : BatchDone(s)
    \/ \E s \in Writers, id \in DocIds :
         \E rev \in KnownRevs(s, id) : DelStore(s, id, rev)
    \/ \E s \in Stores : AppendLog(s)

NextBatch ==
    \/ \E s \in Writers : \E batch \in Batches(s) : PutAll(s, batch)
    \/ BatchSteps

SpecBatch == Init /\ [][NextBatch]_vars

NextBatchSecond ==
    \/ \E s \in Writers : \E batch \in Batches(s) : PutAllSecond(s, batch)
    \/ BatchSteps

SpecBatchSecond == Init /\ [][NextBatchSecond]_vars

\* ---- join when the store refuses a write ----
\* join, one bulkDocs call rejects (the store cannot write the revision, or
\* the payload is no document): .catch logs the error and the task resolves,
\* so Promise.all goes on as if the entry had been written
JoinApplyRejects(s, e) ==
    /\ pc[s].op \in {"join", "load"}
    /\ pc[s].stage = "replay"
    /\ e \in pc[s].pending
    /\ NodesAt(pouch[s][e.payload.id],
               [pos |-> e.payload.pos, hash |-> e.payload.hash]) = {}
    /\ IF pc[s].pending = {e}
       THEN /\ pc' = [pc EXCEPT ![s] = Idle]
            /\ last' = [last EXCEPT ![s] = JoinReturned(s, pc[s].L)]
       ELSE /\ pc' = [pc EXCEPT ![s].pending = @ \ {e}]
            /\ UNCHANGED last
    /\ UNCHANGED <<pouch, log, clock, hashOf, nextRev, ops>>

NextReplay ==
    \/ \E s \in Writers, id \in DocIds, content \in Contents :
         \E rev \in KnownRevs(s, id) : PutStore(s, TRUE, id, rev, content)
    \/ \E s \in Writers, id \in DocIds :
         \E rev \in KnownRevs(s, id) : DelStore(s, id, rev)
    \/ \E s \in Stores : AppendLog(s)
    \/ \E s, t \in Stores : JoinMerge(s, t)
    \/ \E s \in Stores : JoinReplay(s)
    \/ \E s \in Stores : \E e \in pc[s].pending : JoinApply(s, e)
    \/ \E s \in Stores : \E e \in pc[s].pending : JoinApplyRejects(s, e)

SpecReplay == Init /\ [][NextReplay]_vars

\* ---- what callers observe ----
AllIdle == \A s \in Stores : IsIdle(s)

\* all(): the live documents of store s, with their revisions
all(s) == PouchAllDocs(pouch[s])

\* get(id) on store s
get(s, id) == PouchGet(pouch[s][id], id)

\* the hash getter of store s: this._hash, or CubeError when there is none
hashGetter(s) ==
    IF hashOf[s].set
    THEN [ok |-> TRUE, value |-> hashOf[s].entries]
    ELSE [ok |-> FALSE, value |-> {}]

\* all() as a set of {id, content}, the revision tokens left out
Docs(s) == {[id |-> d.id, content |-> d.content] : d \in all(s)}

Own(s) == {e \in log[s] : e.origin = s}

lengthOfValues(s) == Cardinality(log[s])

\* log.length of store s: ipfs-log counts the entries appended to this log;
\* join does not add the entries it merges to the count
length(s) == Cardinality(Own(s))

\* s returned from join(t) as its last call and t's log has not changed since
JoinedFrom(s, t) ==
    /\ IsIdle(s) /\ IsIdle(t)
    /\ last[s].op = "join" /\ last[s].src = t
    /\ last[s].L = log[t]

\* ---- C1 ----
\* The entries of A and B are creations of pairwise different documents
DisjointPosts ==
    \A e \in log["A"] \cup log["B"] :
        /\ e.payload.pos = 1 /\ ~e.payload.deleted
        /\ \A f \in log["A"] \cup log["B"] : f.payload.id = e.payload.id => f = e

\* A.join(B) returned, then B.join(A) returned, and nothing was written since
\* the stores posted their documents
JoinedBothWays ==
    /\ AllIdle
    /\ DisjointPosts
    /\ last["A"].op = "join" /\ last["A"].src = "B" /\ Own("B") \subseteq last["A"].L
    /\ JoinedFrom("B", "A") /\ last["A"].L \subseteq last["B"].L

\* C1: when A and B posted disjoint documents and then A.join(B) and
\* B.join(A) returned, A.all() and B.all() hold the same {id, content} pairs.
C1_Convergence == JoinedBothWays => Docs("A") = Docs("B")

C1_Witness ==
    /\ JoinedBothWays
    /\ Own("A") # {} /\ Own("B") # {}
    /\ Cardinality(Docs("A")) = 2

\* ---- C2 ----
\* s returned from join(L) twice in a row
JoinedTwice(s) ==
    /\ IsIdle(s)
    /\ last[s].op = "join" /\ last[s].prev = "join"
    /\ last[s].prevL = last[s].L

\* C2: a second join of the same log leaves the live documents (ids,
\* contents and revisions) as the first join left them.
C2_IdempotentReplay == \A s \in Stores : JoinedTwice(s) => all(s) = last[s].live0

C2_Witness ==
    \E s \in Stores :
        /\ JoinedTwice(s)
        /\ \E e \in last[s].L : e.payload.pos > 1
        /\ all(s) # {}

\* ---- C3 ----
\* C3: after s.join(t) returned, every live document of t is found in s at
\* the same revision, and a document t deleted is not live in s.  Stated for
\* a store s that wrote nothing itself.
C3_JoinReflectsSource ==
    \A s, t \in Stores :
        (JoinedFrom(s, t) /\ Own(s) = {}) =>
            /\ \A d \in all(t) :
                 /\ get(s, d.id).found
                 /\ get(s, d.id).pos = d.pos /\ get(s, d.id).hash = d.hash
            /\ \A id \in DocIds :
                 (pouch[t][id] # {} /\ ~IsLive(pouch[t][id])) => ~get(s, id).found

\* ---- C4 ----
IdRevs(D) == {[id |-> d.id, pos |-> d.pos, hash |-> d.hash] : d \in D}

\* t was constructed from a published hash and load() was its only call
LoadedFromHash(t) ==
    /\ IsIdle(t)
    /\ last[t].op = "load" /\ last[t].prev = "new"

\* C4: a store constructed from {hash, name} holds, after load(), the live
\* documents (ids and revisions) the publishing store held when it called
\* toMultihash.
C4_RoundTrip ==
    \A t \in Stores : LoadedFromHash(t) => IdRevs(all(t)) = IdRevs(hashOf[t].liveAt)

\* ---- C5 ----
\* C5: every entry a store appended itself names a revision that its
\* PouchDB holds, in every state, also between the steps of a call.
C5_StoreFirst ==
    \A s \in Stores : \A e \in Own(s) :
        /\ e.payload.id \in DocIds
        /\ NodesAt(pouch[s][e.payload.id],
                   [pos |-> e.payload.pos, hash |-> e.payload.hash]) # {}

\* ---- C6 ----
EmptyPouch == [id \in DocIds |-> {}]

RECURSIVE ReplaySeq(_, _)
\* The entries of seq written in order with bulkDocs, new_edits: false
ReplaySeq(P, seq) ==
    IF seq = <<>> THEN P
    ELSE ReplaySeq([P EXCEPT ![Head(seq).payload.id] = PouchBulkDocs(@, Head(seq).payload)],
                   Tail(seq))

\* C6: when no call is in flight, the live documents of a store are those
\* a replay of its own log into an empty store gives.
C6_LogIsSourceOfTruth ==
    AllIdle => \A s \in Stores :
        all(s) = PouchAllDocs(ReplaySeq(EmptyPouch, LogValues(log[s])))

\* ---- C7 ----
\* Every revision of document id that s has logged was written by one store
OneWriter(s, id) ==
    \A e, f \in log[s] : (e.payload.id = id /\ f.payload.id = id) => e.origin = f.origin

\* C7: when del returns, get(id) finds nothing, all() does not list the
\* document, and the log is longer than before the call.  Stated for a
\* document whose revisions all come from one writer.
C7_DeleteHidesDocument ==
    [][\A s \in Stores :
         (pc[s].op = "del" /\ pc'[s].op = "idle" /\ OneWriter(s, pc[s].payload.id)) =>
            /\ ~PouchGet(pouch'[s][pc[s].payload.id], pc[s].payload.id).found
            /\ \A d \in PouchAllDocs(pouch'[s]) : d.id # pc[s].payload.id
            /\ LogLength(log'[s]) > LogLength(pc[s].log0)]_vars

\* ---- C8 ----
\* t created document id itself and its last write of it was a del
DeletedBy(t, id) ==
    /\ pouch[t][id] # {}
    /\ ~IsLive(pouch[t][id])
    /\ \A e \in log[t] : e.payload.id = id => e.origin = t

\* C8: a fresh store that joins the log of a store which created and then
\* deleted a document does not list that document.
C8_NoResurrection ==
    \A s, t \in Stores :
        (JoinedFrom(s, t) /\ log[s] = log[t] /\ last[s].live0 = {}) =>
            \A id \in DocIds : DeletedBy(t, id) => ~get(s, id).found

\* ---- C9 ----
RECURSIVE ReplayResults(_, _)
\* join's replay of the entries E into the store P: the bulkDocs writes are
\* started together, so every order of completion is a result
ReplayResults(P, E) ==
    IF E = {} THEN {P}
    ELSE UNION {ReplayResults([P EXCEPT ![e.payload.id] = PouchBulkDocs(@, e.payload)],
                              E \ {e}) : e \in E}

\* join(X) then join(Y) from store P
JoinThenJoin(P, X, Y) == UNION {ReplayResults(Q, Y) : Q \in ReplayResults(P, X)}

\* C9: a store that joins the log of A then that of B lists the same live
\* documents as the same store joining B's then A's; and what a join in flight can still
\* write is one of the results of replaying its log into the store it began with.
C9_OrderIndependent ==
    /\ \A s \in Stores : pc[s].stage = "replay" =>
           ReplayResults(pouch[s], pc[s].pending) \subseteq ReplayResults(pc[s].p0, pc[s].L)
    /\ \A s \in Stores :
           \A R1 \in JoinThenJoin(pouch[s], log["A"], log["B"]),
              R2 \in JoinThenJoin(pouch[s], log["B"], log["A"]) :
               PouchAllDocs(R1) = PouchAllDocs(R2)

\* The join of src/index.js (second class): after this.log.join it writes
\* this.log.values[i] for i < this.log.length, one entry after the other; n is
\* this.log.length
JoinSequential(P, merged, n) ==
    LET values == LogValues(merged)
    IN ReplaySeq(P, SubSeq(values, 1, IF n < Len(values) THEN n ELSE Len(values)))

\* two logs that create, update and delete one document between them
C9_Witness ==
    \E id \in DocIds :
        /\ \E e \in log["A"] : e.payload.id = id /\ e.payload.deleted
        /\ \E e \in log["B"] \ log["A"] : e.payload.id = id /\ ~e.payload.deleted
        /\ \E e \in log["A"] \ log["B"] : e.payload.id = id /\ ~e.payload.deleted
        /\ pc["T"].stage = "replay" /\ pc["T"].pending # pc["T"].L

\* ---- C10 ----
\* C10: when s.join(t) returns, the log of s lists the entries it held
\* before the call and the entries of t, each once.
C10_JoinKeepsEntries ==
    [][\A s \in Stores :
         (pc[s].op = "join" /\ pc'[s].op = "idle") =>
            /\ log'[s] = pc[s].log0 \cup log[pc[s].src]
            /\ Len(LogValues(log'[s])) = Cardinality(pc[s].log0 \cup log[pc[s].src])
            /\ \A e \in pc[s].log0 \cup log[pc[s].src] :
                 Cardinality({i \in 1..Len(LogValues(log'[s])) : LogValues(log'[s])[i] = e}) = 1]_vars

\* s joins t again, sharing entries with it and lacking others
C10_Witness ==
    \E s \in Stores :
        /\ pc[s].op = "join" /\ pc[s].stage = "replay"
        /\ pc[s].log0 \cap log[pc[s].src] # {}
        /\ log[pc[s].src] \ pc[s].log0 # {}

\* ---- C11 ----
\* Element k of the array passed to put on s is in the store and in the log
ElementDone(s, k) ==
    LET d == pc[s].payload[k] IN
    /\ d.valid
    /\ \E e \in log[s] \ pc[s].log0 :
         /\ e.origin = s
         /\ e.payload.id = d.id /\ e.payload.content = d.content
         /\ NodesAt(pouch[s][d.id], [pos |-> e.payload.pos, hash |-> e.payload.hash]) # {}

\* C11: when the promise of put(array) has resolved, every element has been
\* written to the store and appended to the log, and no element has failed.
C11_ArrayPutCompletes ==
    \A s \in Stores :
        (pc[s].op = "putAll" /\ pc[s].stage = "resolved") =>
            /\ pc[s].pending = {}
            /\ pc[s].L = {}
            /\ \A k \in 1..Len(pc[s].payload) : ElementDone(s, k)

\* ---- C12 ----
\* C12: a put(array) that validate refused leaves the store and the log as
\* they were before the call.
C12_FailFastValidation ==
    \A s \in Stores :
        (pc[s].op = "putAll" /\ \E k \in 1..Len(pc[s].payload) : ~pc[s].payload[k].valid) =>
            /\ pouch[s] = pc[s].p0
            /\ log[s] = pc[s].log0

\* ---- C13 ----
\* C13: a put, post or del that succeeds leaves the log one entry longer
\* than it was when the call began, and one that fails leaves it as long as
\* it was.  A call succeeds when its write to the store does.
C13_LogLengthCountsSuccesses ==
    [][\A s \in Stores :
         /\ (pc[s].op \in {"put", "post", "del"} /\ pc'[s].op = "idle") =>
              LogLength(log'[s]) = LogLength(pc[s].log0) +
                  (IF pc[s].stage = "append" \/ pouch'[s] # pouch[s] THEN 1 ELSE 0)
         /\ (pc[s].op = "idle" /\ pc'[s].op = "idle") =>
              LogLength(log'[s]) = LogLength(log[s])]_vars

\* ---- C14 ----
\* C14: when del succeeds, the entry it appended names the document, is
\* marked as a deletion, and carries the revision of the tombstone that
\* remove wrote to the store.
C14_TombstoneCarriesNewRev ==
    [][\A s \in Stores :
         (/\ pc[s].op = "del" /\ pc'[s].op = "idle"
          /\ (pc[s].stage = "append" \/ pouch'[s] # pouch[s])) =>
            /\ log'[s] # pc[s].log0
            /\ \A e \in log'[s] \ pc[s].log0 :
                 /\ e.payload.id = pc[s].payload.id
                 /\ e.payload.deleted \/ e.payload.op = "DEL"
                 /\ \E n \in pouch'[s][e.payload.id] :
                      /\ n.deleted
                      /\ RevOf(n) = [pos |-> e.payload.pos, hash |-> e.payload.hash]]_vars

\* ---- C15 ----
\* C15: the entry a successful put, post or del appends carries a revision
\* that no entry of the store's log recorded for that document before.
C15_RevisionMonotonic ==
    [][\A s \in Stores :
         (pc[s].op \in {"put", "post", "del"} /\ pc'[s].op = "idle") =>
            \A e \in log'[s] \ log[s] : \A f \in log[s] :
                f.payload.id = e.payload.id =>
                    <<f.payload.pos, f.payload.hash>> # <<e.payload.pos, e.payload.hash>>]_vars

\* a store has written a document twice after it took in entries of another
\* store for it
C15_Witness ==
    \E s \in Stores, id \in DocIds :
        /\ Cardinality({e \in Own(s) : e.payload.id = id}) >= 2
        /\ \E e \in Own(s) : e.payload.id = id /\ e.payload.pos >= 2
        /\ \E e \in log[s] \ Own(s) : e.payload.id = id

\* ---- C16 ----
\* The store P holds the revision entry e carries
Materialized(P, e) ==
    /\ e.payload.id \in DocIds
    /\ NodesAt(P[e.payload.id], [pos |-> e.payload.pos, hash |-> e.payload.hash]) # {}

\* The entries whose bulkDocs completes in the step
Applied(s) ==
    IF pc'[s].op = "idle" THEN pc[s].pending ELSE pc[s].pending \ pc'[s].pending

\* C16: replaying an entry the store already holds changes nothing in the
\* store and does not end the join: the other writes stay in flight, and
\* when the join returns it returns normally with every entry of the
\* foreign log in the store.
C16_ReplayTolerance ==
    [][\A s \in Stores :
         (pc[s].stage = "replay" /\ pc'[s] # pc[s]) =>
            /\ \A e \in Applied(s) : Materialized(pouch[s], e) =>
                  /\ pouch'[s] = pouch[s]
                  /\ pc'[s].op # "idle" => pc'[s].pending = pc[s].pending \ {e}
            /\ pc'[s].op = "idle" =>
                  /\ last'[s].op = pc[s].op /\ last'[s].L = pc[s].L
                  /\ \A e \in pc[s].L : Materialized(pouch'[s], e)]_vars

\* a join is replaying an entry the store already held when the join
\* began, with entries the store lacks still to come
C16_Witness ==
    \E s \in Stores :
        /\ pc[s].stage = "replay"
        /\ \E e \in pc[s].pending : Materialized(pc[s].p0, e)
        /\ \E e \in pc[s].pending : ~Materialized(pouch[s], e)

\* ---- C17 ----
\* C17: when the write of an entry the store lacks fails during join, the
\* join fails at that point: it does not return normally, nothing more is
\* replayed, and the log stays as merged.
C17_ReplayErrorPropagates ==
    [][\A s \in Stores :
         (/\ pc[s].stage = "replay" /\ pc'[s] # pc[s]
          /\ \E e \in Applied(s) : ~Materialized(pouch'[s], e)) =>
            /\ pc'[s].op = "idle"
            /\ last'[s] = last[s]
            /\ log'[s] = log[s]]_vars

\* ---- C18 ----
\* C18: after a join with an empty foreign log has returned normally, the
\* store holds the revision of every entry of its own log.
C18_RepairJoin ==
    \A s \in Stores :
        (IsIdle(s) /\ last[s].op = "join" /\ last[s].L = {}) =>
            \A e \in log[s] : Materialized(pouch[s], e)

\* ---- C19 ----
\* toMultihash() completes on s in the step
ToMultihashCompletes(s) == last'[s].op = "toMultihash" /\ last'[s] # last[s]

LoadProceeds(s) == pc[s].op = "idle" /\ pc'[s].op = "load"

\* C20 as stated: load() never gets under way on a store constructed from
\* a plain name.
C20_LoadOnlyFromHash ==
    [][\A s \in Writers : ~LoadProceeds(s)]_vars

\* C20 amended: load() gets under way only on a store that has a hash, and
\* then merges the log the hash names, with the store untouched until the
\* replay; a call that fails at once (a load without a hash among them)
\* leaves the logs and the stores as they were.
C20_LoadNeedsHash ==
    [][/\ \A s \in Stores : LoadProceeds(s) =>
             /\ hashGetter(s).ok
             /\ log'[s] = log[s] \cup hashGetter(s).value
             /\ pouch'[s] = pouch[s]
       /\ (ops' # ops /\ pc' = pc /\ last' = last /\ hashOf' = hashOf) =>
             (pouch' = pouch /\ log' = log)]_vars

\* a store constructed from a plain name, which has written a document and
\* published its hash, is loading
C20_Witness ==
    \E s \in Writers :
        /\ pc[s].op = "load"
        /\ Own(s) # {}

\* ---- C21 ----
\* s returns in the step from a join it began with an empty log
EmptyJoinReturns(s) ==
    /\ pc[s].op = "join" /\ pc'[s].op = "idle"
    /\ pc[s].log0 = {}

StoredNoting(s, op, id, r, deleted, content, validated) ==
    /\ pouch' = [pouch EXCEPT ![s][id] = r.tree]
    /\ nextRev' = nextRev + 1
    /\ pc' = [pc EXCEPT ![s] =
         [Pending(s, op, Payload("-", id, r.rev, deleted, content))
            EXCEPT !.src = IF validated THEN "validate" ELSE "-"]]
    /\ UNCHANGED <<log, clock, hashOf, last>>

\* put(doc): this.validate(doc), then pouch.put(doc)
PutNoting(s, valid, id, rev, content) ==
    /\ CanStart(s)
    /\ ops' = ops + 1
    /\ LET r == IF id = 0 THEN Failed({})
                ELSE PouchWrite(pouch[s][id], rev, FALSE, content, nextRev) IN
       IF validate(valid) /\ r.ok
       THEN StoredNoting(s, "put", id, r, FALSE, content, TRUE)
       ELSE Rejected

\* post(doc): this.validate(doc), then pouch.post(doc)
PostNoting(s, valid, id, content) ==
    /\ CanStart(s)
    /\ ops' = ops + 1
    /\ IF valid THEN FreshId(id) ELSE id = 0
    /\ IF validate(valid)
       THEN StoredNoting(s, "post", id,
                         PouchWrite(pouch[s][id], NoRev, FALSE, content, nextRev),
                         FALSE, content, TRUE)
       ELSE Rejected

\* del({_id, _rev}): the two asserts, then pouch.remove(_id, _rev); validate
\* is not called
DelNoting(s, id, rev) ==
    /\ CanStart(s)
    /\ ops' = ops + 1
    /\ LET r == IF id = 0 \/ rev = NoRev THEN Failed({})
                ELSE PouchWrite(pouch[s][id], rev, TRUE, 0, nextRev) IN
       IF r.ok
       THEN StoredNoting(s, "del", id, r, TRUE, 0, FALSE)
       ELSE Rejected

NextNoting ==
    \/ \E s \in Writers, id \in DocIds, content \in Contents :
         \E rev \in KnownRevs(s, id) : PutNoting(s, TRUE, id, rev, content)
    \/ \E s \in Writers : PutNoting(s, FALSE, 0, NoRev, 0)
    \/ \E s \in Writers, id \in DocIds, content \in Contents :
         PostNoting(s, TRUE, id, content)
    \/ \E s \in Writers : PostNoting(s, FALSE, 0, 0)
    \/ \E s \in Writers, id \in DocIds :
         \E rev \in KnownRevs(s, id) : DelNoting(s, id, rev)
    \/ \E s \in Writers : AppendLog(s)

SpecNoting == Init /\ [][NextNoting]_vars

\* C22: whenever put, post or del has written a document to the store and is
\* about to append it to the log, validate was called on it before the write.
C22_ValidateBeforeWrite ==
    \A s \in Stores :
        (pc[s].op \in {"put", "post", "del"} /\ pc[s].stage = "append") =>
            pc[s].src = "validate"

\* ---- C23 ----
\* C23: the replay of a join covers exactly the entries of the local log as
\* it stands after the merge, and its writes complete one at a time in log
\* order: the write that completes is that of the oldest entry not yet written.
C23_ReplayWholeLogInOrder ==
    [][\A s \in Stores :
          /\ (pc[s].op \in {"join", "load"} /\ pc[s].stage = "merged" /\ pc'[s] # pc[s]) =>
                 IF pc'[s].stage = "replay"
                 THEN pc'[s].pending = log[s]
                 ELSE log[s] = {}
          /\ (pc[s].op \in {"join", "load"} /\ pc[s].stage = "replay" /\ pc'[s] # pc[s]) =>
                 \E e \in pc[s].pending :
                     /\ Applied(s) = {e}
                     /\ \A f \in pc[s].pending : f = e \/ EntryBefore(e, f)]_vars

\* ---- C24 ----
\* C24: no step of put, post, del or join changes the cached multihash; when
\* a put, post or del returns on a store whose multihash was computed, the
\* hash getter still gives the value the last toMultihash gave, and that is
\* not the multihash of the log as it now stands.
C24_CacheNeverInvalidated ==
    [][\A s \in Stores :
          /\ (pc[s].op \in {"put", "post", "del", "join", "load"}
               \/ pc'[s].op \in {"put", "post", "del", "join", "load"}) =>
                 hashOf'[s] = hashOf[s]
          /\ (pc[s].op \in {"put", "post", "del"} /\ pc'[s].op = "idle"
               /\ hashGetter(s).ok) =>
                 /\ hashGetter(s)' = hashGetter(s)
                 /\ hashGetter(s)'.value # log'[s]]_vars

\* a store computed its multihash and then wrote a document
C24_Witness ==
    \E s \in Writers :
        /\ IsIdle(s)
        /\ last[s].op \in {"put", "post", "del"} /\ last[s].prev = "toMultihash"
        /\ hashGetter(s).ok /\ hashGetter(s).value # log[s]

\* ---- C25 ----
\* C25: no step of s.join(t), from the call to the return, changes t: its
\* log (entries, values and length) and its store (every revision, and so
\* the live documents) are after the step what they were before it.
C25_JoinLeavesSourceAlone ==
    [][\A s, t \in Stores :
          (\/ pc[s].op = "join" /\ pc[s].src = t
           \/ pc'[s].op = "join" /\ pc'[s].src = t) =>
              /\ log'[t] = log[t]
              /\ length(t)' = length(t)
              /\ pouch'[t] = pouch[t]
              /\ all(t)' = all(t)]_vars

\* a store with entries of its own has joined a store that holds documents,
\* and that store's log still lacks the joiner's entries
C25_Witness ==
    \E s, t \in Stores :
        /\ JoinedFrom(s, t)
        /\ log[t] # {} /\ all(t) # {}
        /\ Own(s) # {} /\ ~(Own(s) \subseteq log[t])

\* ---- C26: a put and a join in flight on one store ----
\* The _rev a caller holds for document id after get(id): that of the
\* winning revision, or none
CurrentRevs(s, id) ==
    {NoRev} \cup (IF get(s, id).found
                  THEN {[pos |-> get(s, id).pos, hash |-> get(s, id).hash]}
                  ELSE {})

\* pc[s] with put(doc) and join(t) both called and neither promise settled:
\* put says where the put stands ("store": pouch.put under way, "append":
\* log.append under way, "done", "failed"), stage where the join stands
\* ("start": log.join under way, "merged", "replay", "done")
BothCall(s, t, p) ==
    [op |-> "put+join", stage |-> "start", payload |-> p, src |-> t,
     L |-> {}, pending |-> {}, log0 |-> log[s], p0 |-> pouch[s], put |-> "store"]

\* s.put(doc) and s.join(t) are called in the same tick: validate passes,
\* pouch.put(doc) and this.log.join(log) are started
BothStart(s, t, id, rev, content) ==
    /\ CanStart(s)
    /\ t # s
    /\ ops' = ops + 1
    /\ pc' = [pc EXCEPT ![s] = BothCall(s, t, Payload("-", id, rev, FALSE, content))]
    /\ UNCHANGED <<pouch, log, clock, hashOf, last, nextRev>>

\* put: this.pouch.put(doc) completes; a conflict rejects the put
BothPutStore(s) ==
    /\ pc[s].op = "put+join" /\ pc[s].put = "store"
    /\ LET p == pc[s].payload
           r == PouchWrite(pouch[s][p.id], [pos |-> p.pos, hash |-> p.hash],
                           FALSE, p.content, nextRev) IN
       IF r.ok
       THEN /\ pouch' = [pouch EXCEPT ![s][p.id] = r.tree]
            /\ nextRev' = nextRev + 1
            /\ pc' = [pc EXCEPT ![s].put = "append",
                                ![s].payload = Payload("-", p.id, r.rev, FALSE, p.content)]
       ELSE /\ pc' = [pc EXCEPT ![s].put = "failed"]
            /\ UNCHANGED <<pouch, nextRev>>
    /\ UNCHANGED <<log, clock, hashOf, last, ops>>

\* an append that writes the log as it stood when put was called plus the
\* new entry
BothPutAppendStale(s) ==
    /\ pc[s].op = "put+join" /\ pc[s].put = "append"
    /\ log' = [log EXCEPT ![s] = pc[s].log0 \cup
                 {[origin |-> s, time |-> clock[s] + 1, payload |-> pc[s].payload]}]
    /\ clock' = [clock EXCEPT ![s] = @ + 1]
    /\ pc' = [pc EXCEPT ![s].put = "done"]
    /\ UNCHANGED <<pouch, hashOf, last, nextRev, ops>>

\* put: this.log.append(doc) completes
BothPutAppend(s) ==
    /\ pc[s].op = "put+join" /\ pc[s].put = "append"
    /\ LogAppend(s, pc[s].payload)
    /\ pc' = [pc EXCEPT ![s].put = "done"]
    /\ UNCHANGED <<pouch, hashOf, last, nextRev, ops>>

\* join: this.log.join(log) completes
BothJoinMerge(s) ==
    /\ pc[s].op = "put+join" /\ pc[s].stage = "start"
    /\ LogJoin(s, log[pc[s].src])
    /\ pc' = [pc EXCEPT ![s].stage = "merged"]
    /\ UNCHANGED <<pouch, hashOf, last, nextRev, ops>>

\* join: the callback starts one bulkDocs per entry of the foreign log
BothJoinReplay(s) ==
    /\ pc[s].op = "put+join" /\ pc[s].stage = "merged"
    /\ LET L == log[pc[s].src] IN
       pc' = [pc EXCEPT ![s].stage = IF L = {} THEN "done" ELSE "replay",
                        ![s].L = L, ![s].pending = L]
    /\ UNCHANGED <<pouch, log, clock, hashOf, last, nextRev, ops>>

\* join: one bulkDocs completes
BothJoinApply(s, e) ==
    /\ pc[s].op = "put+join" /\ pc[s].stage = "replay"
    /\ e \in pc[s].pending
    /\ pouch' = [pouch EXCEPT ![s][e.payload.id] = PouchBulkDocs(@, e.payload)]
    /\ pc' = [pc EXCEPT ![s].pending = @ \ {e},
                        ![s].stage = IF pc[s].pending = {e} THEN "done" ELSE @]
    /\ UNCHANGED <<log, clock, hashOf, last, nextRev, ops>>

\* both promises have settled
BothReturn(s) ==
    /\ pc[s].op = "put+join"
    /\ pc[s].put \in {"done", "failed"} /\ pc[s].stage = "done"
    /\ pc' = [pc EXCEPT ![s] = Idle]
    /\ last' = [last EXCEPT ![s] =
         Returned(s, "put+join", pc[s].src, pc[s].L, PouchAllDocs(pc[s].p0))]
    /\ UNCHANGED <<pouch, log, clock, hashOf, nextRev, ops>>

NextBoth ==
    \/ \E s \in Writers, id \in DocIds, content \in Contents :
         \E rev \in CurrentRevs(s, id) :
             ops < MaxBothOps /\ PutStore(s, TRUE, id, rev, content)
    \/ \E s \in Writers, id \in DocIds :
         \E rev \in CurrentRevs(s, id) :
             ops < MaxBothOps /\ DelStore(s, id, rev)
    \/ \E s \in Stores : AppendLog(s)
    \/ \E s, t \in Writers : ops < MaxBothOps /\ JoinMerge(s, t)
    \/ \E s \in Stores : JoinReplay(s)
    \/ \E s \in Stores : \E e \in pc[s].pending : JoinApply(s, e)
    \/ \E s, t \in Writers, id \in DocIds, content \in Contents :
         \E rev \in CurrentRevs(s, id) :
             ops < MaxBothOps /\ BothStart(s, t, id, rev, content)
    \/ \E s \in Writers : BothPutStore(s)
    \/ \E s \in Writers : BothPutAppend(s)
    \/ \E s \in Writers : BothJoinMerge(s)
    \/ \E s \in Writers : BothJoinReplay(s)
    \/ \E s \in Writers : \E e \in pc[s].pending : BothJoinApply(s, e)
    \/ \E s \in Writers : BothReturn(s)

SpecBoth == Init /\ [][NextBoth]_vars

\* the put and the join of s have both completed, the put with success
BothCompleted(s) ==
    pc[s].op = "put+join" /\ pc[s].put = "done" /\ pc[s].stage = "done"

\* the log holds the put's entry and every foreign entry, and every revision
\* of the foreign log is in the store
BothLanded(s) ==
    /\ \E e \in log[s] : e.origin = s /\ e.payload = pc[s].payload
    /\ pc[s].L \subseteq log[s]
    /\ log[pc[s].src] \subseteq log[s]
    /\ \A e \in pc[s].L : Materialized(pouch[s], e)

\* get gives the put's document at the revision the put produced
PutWins(s) ==
    /\ get(s, pc[s].payload.id).found
    /\ get(s, pc[s].payload.id).pos = pc[s].payload.pos
    /\ get(s, pc[s].payload.id).hash = pc[s].payload.hash
    /\ get(s, pc[s].payload.id).content = pc[s].payload.content

\* the foreign log carries no revision of the put's document that the store
\* lacked when the two calls were made
NoForeignEdit(s) ==
    \A e \in pc[s].L :
        e.payload.id = pc[s].payload.id => Materialized(pc[s].p0, e)

\* C26 as stated: once a put and a join made together on a store have both
\* completed, under every interleaving of their steps, the log holds the
\* put's entry and every foreign entry and the store holds the put's
\* document at the revision the put produced, with the foreign documents.
C26_PutSurvivesJoin ==
    \A s \in Stores : BothCompleted(s) => (BothLanded(s) /\ PutWins(s))

\* C26 amended: the log holds the put's entry and every foreign entry and
\* the store every foreign revision; the store gives the put's document at
\* the revision the put produced when the foreign log carries no revision of
\* that document that the store lacked when the calls were made.
C26_PutSurvivesJoinAmended ==
    \A s \in Stores :
        BothCompleted(s) => (BothLanded(s) /\ (NoForeignEdit(s) => PutWins(s)))

\* a put updated a document the store had from an earlier join, while the
\* join replayed that document's older revision
C26_Witness ==
    \E s \in Stores :
        /\ BothCompleted(s) /\ NoForeignEdit(s)
        /\ pc[s].payload.pos > 1
        /\ \E e \in pc[s].L :
               e.payload.id = pc[s].payload.id /\ e.payload.pos < pc[s].payload.pos

====
